---- MODULE Spec2Model ----
(***************************************************************************)
(* State-machine model of three parts of the TreeFrog application server:  *)
(*   - TKvsDatabasePool (src/src/tkvsdatabasepool.cpp): the pool of KVS     *)
(*     connections with a stack of cached (open, idle) connection names,   *)
(*     a stack of available (closed) names and the timer that closes      *)
(*     extra connections;                                                  *)
(*   - TThreadApplicationServer (src/src/tthreadapplicationserver.cpp):    *)
(*     the fixed pool of TActionThread workers and the accept path.        *)
(* TStack<T> (tstack.h) is a thread-safe LIFO: push and pop are single     *)
(* atomic steps.  Every access to a stack or to lastCachedTime is a step   *)
(* of its own, so the threads calling database()/pool() and the timer      *)
(* interleave between any two of them; what a thread does to a connection  *)
(* whose name it has popped, and so owns alone, belongs to the pop's step. *)
(***************************************************************************)
EXTENDS Integers, Sequences, FiniteSets, TLC

\* ------------------------------------------------------------------ bounds

\* maxConnects == maxNumberOfThreadsPerAppServer: names reserved per type
MaxConnects == 2
\* threads of the server that may be running actions
MaxThreads == 3
\* inbound connections of a run
MaxSockets == 4
\* std::time() at the start of the run and the number of clock advances
StartTime == 100
MaxTicks == 1
\* rows of the cache table and pages of one row
MaxEntries == 6
MaxPages == 2

\* ------------------------------------------------------- program constants

\* TKvsDatabase::TypeNum: MongoDB = 0, Redis = 1
TypeNum == 2
\* timerEvent: lastCachedTime < time - 30
IdleThreshold == 30
\* Tf::app()->exit(127): the newer library asks for a restart
RestartCode == 127
\* tcachesqlitestore.cpp: PAGESIZE, and for (int i = 0; i < 3; i++) of gc()
PAGESIZE == 4096
GcTurns == 3
\* one clock advance: just past the threshold
ClockStep == IdleThreshold + 1

Types == 0 .. (TypeNum - 1)
\* the threads calling database() and pool()
Callers == {"c1", "c2", "c3"}
\* which KVS the settings enable, isKvsAvailable(type)
Settings == {[t \in Types |-> t = 0]}

\* CONN_NAME_FORMAT "kvs%02d_%d": a connection name is fixed by (type, i)
ConnName(type, i) == <<"kvs", type, i>>
Names == {ConnName(t, i) : t \in Types, i \in 0 .. (MaxConnects - 1)}
\* kvsTypeHash()->value(database.driverName()): the type a connection is of
TypeOf(n) == n[2]
\* TKvsDatabase(): the invalid object; QString(): no name
Invalid == <<>>
NoName == <<>>
IsValid(d) == d # Invalid

\* a value no release has stored yet (greater than every time() of the run)
FarFuture == StartTime + (MaxTicks + 2) * ClockStep

VARIABLES
    available,       \* isKvsAvailable(type): the configuration
    cachedDatabase,  \* [type]: TStack of the names of open idle connections
    availableNames,  \* [type]: TStack of the names of closed connections
    lastCachedTime,  \* [type]: TAtomic<uint>, time of the last pool()
    opened,          \* the names whose TKvsDatabase isOpen()
    ticks,           \* clock advances so far; std::time() == Now
    pc,              \* [caller]: position in database() / pool()
    reqType,         \* [caller]: the type argument of database()
    name,            \* [caller]: the local QString name of database()
    db,              \* [caller]: the caller's TKvsDatabase handle
    tpc,             \* position of timerEvent
    tType,           \* timerEvent's loop variable t
    tName,           \* timerEvent's local QString name
    pooledAt,        \* [name]: history, the time() of the pool() that cached it
    registered,      \* the names TKvsDatabase::addDatabase registered
    timerActive,     \* the pool's QBasicTimer is running
    destroyed,       \* ~TKvsDatabasePool() has run
    threadPool,      \* threadPoolPtr(): TStack of the idle TActionThread
    running,         \* the TActionThread started and not yet finished
    socketDesc,      \* [thread]: the descriptor set by setSocketDescriptor
    apc,             \* position of incomingConnection
    aSd,             \* incomingConnection's socketDescriptor argument
    nextSd,          \* the next inbound connection's descriptor
    listening,       \* QTcpServer::isListening()
    listenSocket,    \* the listening descriptor the server was given
    reloadTimer,     \* reloadTimer.isActive(): auto-reloading is enabled
    newerLibrary,    \* newerLibraryExists()
    exitCode,        \* the code given to Tf::app()->exit(), 0 if not called
    spc,             \* position of stop()
    waitElapsed,     \* the wait of waitForAllDone() has timed out
    released,        \* TStaticReleaseThread::exec() has run
    store,           \* the rows of the cache table, in the order of t
    thresholdFileSize, \* TCacheSQLiteStore::_thresholdFileSize
    gnow,            \* QDateTime::currentMSecsSinceEpoch() in gc()
    gpc,             \* position of gc()
    gi,              \* the loop variable i of gc()
    gpasses          \* history: the turns of the loop of gc() so far

lifeVars == <<registered, timerActive, destroyed>>
poolVars == <<available, cachedDatabase, availableNames, lastCachedTime,
              opened, ticks, pc, reqType, name, db, tpc, tType, tName,
              pooledAt, lifeVars>>
ctlVars == <<listening, listenSocket, reloadTimer, newerLibrary, exitCode,
             spc, waitElapsed, released>>
srvVars == <<threadPool, running, socketDesc, apc, aSd, nextSd, ctlVars>>
gcVars == <<store, thresholdFileSize, gnow, gpc, gi, gpasses>>
vars == <<poolVars, srvVars, gcVars>>

Now == StartTime + ticks * ClockStep

\* ------------------------------------------------------------------ TStack

\* TStack<T>::push / pop / top: the top of the stack is the last element
Push(s, x) == Append(s, x)
Top(s) == s[Len(s)]
Pop(s) == SubSeq(s, 1, Len(s) - 1)

Range(s) == {s[i] : i \in 1 .. Len(s)}

\* ------------------------------------------------------------------- init

\* init(): pushes kvs<type>_0 .. kvs<type>_(maxConnects-1) onto
\* availableNames[type] of every available type
InitNames(type) == [i \in 1 .. MaxConnects |-> ConnName(type, i - 1)]

PoolInit ==
    /\ available \in Settings
    /\ cachedDatabase = [t \in Types |-> <<>>]
    /\ availableNames = [t \in Types |-> IF available[t] THEN InitNames(t) ELSE <<>>]
    \* new TAtomic<uint>[n] leaves the values indeterminate
    /\ lastCachedTime \in [Types -> {0, FarFuture}]
    /\ \A t \in Types : ~available[t] => lastCachedTime[t] = 0
    /\ opened = {}
    /\ ticks = 0
    /\ pc = [c \in Callers |-> "idle"]
    /\ reqType = [c \in Callers |-> 0]
    /\ name = [c \in Callers |-> NoName]
    /\ db = [c \in Callers |-> Invalid]
    /\ tpc = "t_idle"
    /\ tType = 0
    /\ tName = NoName
    /\ pooledAt = [n \in Names |-> 0]
    \* line 110: addDatabase() of every name pushed; lines 122-125: the timer
    /\ registered = {n \in Names : available[TypeOf(n)]}
    /\ timerActive = (\E t \in Types : available[t])
    /\ destroyed = FALSE

\* ------------------------------------------------------------- database()

\* database() without the availability check of line 175
DatabaseNoCheck(c, type) ==
    /\ pc[c] = "idle"
    /\ ~destroyed
    /\ reqType' = [reqType EXCEPT ![c] = type]
    /\ pc' = [pc EXCEPT ![c] = "d_cache"]
    /\ UNCHANGED <<available, cachedDatabase, availableNames, lastCachedTime,
                   opened, ticks, name, db, tpc, tType, tName, pooledAt, lifeVars,
                   srvVars, gcVars>>

\* database(type), lines 171-193: the availability check on entry
Database(c, type) ==
    /\ pc[c] = "idle"
    \* no call is made on a pool that has been deleted
    /\ ~destroyed
    /\ reqType' = [reqType EXCEPT ![c] = type]
    /\ IF ~available[type]
       THEN /\ db' = [db EXCEPT ![c] = Invalid]
            /\ pc' = [pc EXCEPT ![c] = "ret"]
       ELSE /\ pc' = [pc EXCEPT ![c] = "d_cache"]
            /\ db' = db
    /\ UNCHANGED <<available, cachedDatabase, availableNames, lastCachedTime,
                   opened, ticks, name, tpc, tType, tName, pooledAt, lifeVars,
                   srvVars, gcVars>>

\* cache.pop() that reads the top and leaves it on the stack
CachePopPeek(c) ==
    /\ pc[c] = "d_cache"
    /\ LET t == reqType[c]
           n == Top(cachedDatabase[t])
       IN  IF cachedDatabase[t] # <<>>
           THEN IF n \in opened
                THEN /\ db' = [db EXCEPT ![c] = n]
                     /\ pc' = [pc EXCEPT ![c] = "ret"]
                     /\ name' = name
                ELSE /\ name' = [name EXCEPT ![c] = n]
                     /\ pc' = [pc EXCEPT ![c] = "d_cached"]
                     /\ db' = db
           ELSE /\ pc' = [pc EXCEPT ![c] = "d_stack"]
                /\ UNCHANGED <<name, db>>
    /\ UNCHANGED <<available, cachedDatabase, availableNames, lastCachedTime,
                   opened, ticks, reqType, tpc, tType, tName, pooledAt,
                   lifeVars, srvVars, gcVars>>

\* database() that tries availableNames before the cache
CachePopColdFirst(c) ==
    /\ pc[c] = "d_cache"
    /\ LET t == reqType[c]
           n == Top(cachedDatabase[t])
       IN  IF cachedDatabase[t] # <<>> /\ availableNames[t] = <<>>
           THEN /\ cachedDatabase' = [cachedDatabase EXCEPT ![t] = Pop(@)]
                /\ pooledAt' = [pooledAt EXCEPT ![n] = 0]
                /\ IF n \in opened
                   THEN /\ db' = [db EXCEPT ![c] = n]
                        /\ pc' = [pc EXCEPT ![c] = "ret"]
                        /\ name' = name
                   ELSE /\ name' = [name EXCEPT ![c] = n]
                        /\ pc' = [pc EXCEPT ![c] = "d_cached"]
                        /\ db' = db
           ELSE /\ pc' = [pc EXCEPT ![c] = "d_stack"]
                /\ UNCHANGED <<name, db, cachedDatabase, pooledAt>>
    /\ UNCHANGED <<available, availableNames, lastCachedTime, opened, ticks,
                   reqType, tpc, tType, tName, lifeVars, srvVars, gcVars>>

\* database() that returns the cached connection without isOpen()
CachePopNoIsOpen(c) ==
    /\ pc[c] = "d_cache"
    /\ LET t == reqType[c]
           n == Top(cachedDatabase[t])
       IN  IF cachedDatabase[t] # <<>>
           THEN /\ cachedDatabase' = [cachedDatabase EXCEPT ![t] = Pop(@)]
                /\ pooledAt' = [pooledAt EXCEPT ![n] = 0]
                /\ db' = [db EXCEPT ![c] = n]
                /\ pc' = [pc EXCEPT ![c] = "ret"]
           ELSE /\ pc' = [pc EXCEPT ![c] = "d_stack"]
                /\ UNCHANGED <<db, cachedDatabase, pooledAt>>
    /\ UNCHANGED <<available, availableNames, lastCachedTime, opened, ticks,
                   reqType, name, tpc, tType, tName, lifeVars, srvVars, gcVars>>

\* lines 195-203: if (cache.pop(name)): the popped name belongs to this
\* caller alone, so the isOpen() test is part of the step.  An open
\* connection is returned; the name of one that is not open is kept to be
\* pushed onto availableNames.  An empty cache leads on to line 209.
CachePop(c) ==
    /\ pc[c] = "d_cache"
    /\ LET t == reqType[c]
           n == Top(cachedDatabase[t])
       IN  IF cachedDatabase[t] # <<>>
           THEN /\ cachedDatabase' = [cachedDatabase EXCEPT ![t] = Pop(@)]
                /\ pooledAt' = [pooledAt EXCEPT ![n] = 0]
                /\ IF n \in opened
                   THEN /\ db' = [db EXCEPT ![c] = n]
                        /\ pc' = [pc EXCEPT ![c] = "ret"]
                        /\ name' = name
                   ELSE /\ name' = [name EXCEPT ![c] = n]
                        /\ pc' = [pc EXCEPT ![c] = "d_cached"]
                        /\ db' = db
           ELSE /\ pc' = [pc EXCEPT ![c] = "d_stack"]
                /\ UNCHANGED <<name, db, cachedDatabase, pooledAt>>
    /\ UNCHANGED <<available, availableNames, lastCachedTime, opened, ticks,
                   reqType, tpc, tType, tName, lifeVars, srvVars, gcVars>>

\* lines 204-205: stack.push(name); continue
CachedPushBack(c) ==
    /\ pc[c] = "d_cached"
    /\ availableNames' = [availableNames EXCEPT ![reqType[c]] = Push(@, name[c])]
    /\ name' = [name EXCEPT ![c] = NoName]
    /\ pc' = [pc EXCEPT ![c] = "d_cache"]
    /\ UNCHANGED <<available, cachedDatabase, lastCachedTime, opened, ticks,
                   reqType, db, tpc, tType, tName, pooledAt, lifeVars,
                   srvVars, gcVars>>

\* database() that pushes the name back when db.open() fails
StackPopRequeue(c) ==
    /\ pc[c] = "d_stack"
    /\ LET t == reqType[c]
           n == Top(availableNames[t])
       IN  IF availableNames[t] # <<>>
           THEN /\ pc' = [pc EXCEPT ![c] = "ret"]
                /\ IF n \in opened
                   THEN /\ db' = [db EXCEPT ![c] = n]
                        /\ opened' = opened
                        /\ availableNames' = [availableNames EXCEPT ![t] = Pop(@)]
                   ELSE \E ok \in BOOLEAN :
                            IF ok
                            THEN /\ opened' = opened \cup {n}
                                 /\ db' = [db EXCEPT ![c] = n]
                                 /\ availableNames' =
                                        [availableNames EXCEPT ![t] = Pop(@)]
                            ELSE /\ opened' = opened
                                 /\ db' = [db EXCEPT ![c] = Invalid]
                                 /\ availableNames' = availableNames
           ELSE /\ pc' = [pc EXCEPT ![c] = "d_cache"]
                /\ UNCHANGED <<availableNames, opened, db>>
    /\ UNCHANGED <<available, cachedDatabase, lastCachedTime, ticks, reqType,
                   name, tpc, tType, tName, pooledAt, lifeVars,
                   srvVars, gcVars>>

\* lines 209-227: if (stack.pop(name)): the popped name belongs to this
\* caller alone, so what follows is part of the step.  An already open
\* connection is returned; else db.open(), which succeeds (the connection
\* is returned) or fails (an invalid object is returned and the name is
\* pushed nowhere).  With neither stack holding a name: for (;;) again.
StackPop(c) ==
    /\ pc[c] = "d_stack"
    /\ LET t == reqType[c]
           n == Top(availableNames[t])
       IN  IF availableNames[t] # <<>>
           THEN /\ availableNames' = [availableNames EXCEPT ![t] = Pop(@)]
                /\ pc' = [pc EXCEPT ![c] = "ret"]
                /\ IF n \in opened
                   THEN /\ db' = [db EXCEPT ![c] = n]
                        /\ opened' = opened
                   ELSE \E ok \in BOOLEAN :
                            IF ok
                            THEN /\ opened' = opened \cup {n}
                                 /\ db' = [db EXCEPT ![c] = n]
                            ELSE /\ opened' = opened
                                 /\ db' = [db EXCEPT ![c] = Invalid]
           ELSE /\ pc' = [pc EXCEPT ![c] = "d_cache"]
                /\ UNCHANGED <<availableNames, opened, db>>
    /\ UNCHANGED <<available, cachedDatabase, lastCachedTime, ticks, reqType,
                   name, tpc, tType, tName, pooledAt, lifeVars,
                   srvVars, gcVars>>

\* ----------------------------------------------------------------- pool()

\* pool() that stores the time of the call for an invalid connection too
PoolPushStoreAlways(c) ==
    /\ pc[c] = "ret"
    /\ IF IsValid(db[c])
       THEN /\ cachedDatabase' = [cachedDatabase EXCEPT ![TypeOf(db[c])] = Push(@, db[c])]
            /\ pooledAt' = [pooledAt EXCEPT ![db[c]] = Now]
            /\ pc' = [pc EXCEPT ![c] = "p_store"]
            /\ UNCHANGED <<db, reqType, lastCachedTime>>
       ELSE /\ lastCachedTime' = [lastCachedTime EXCEPT ![reqType[c]] = Now]
            /\ db' = [db EXCEPT ![c] = Invalid]
            /\ reqType' = [reqType EXCEPT ![c] = 0]
            /\ pc' = [pc EXCEPT ![c] = "idle"]
            /\ UNCHANGED <<cachedDatabase, pooledAt>>
    /\ UNCHANGED <<available, availableNames, opened, ticks,
                   name, tpc, tType, tName, lifeVars, srvVars, gcVars>>

\* pool(database), lines 286-292: a valid connection's name is pushed onto
\* cachedDatabase[type]; an invalid one is only reset (line 296)
PoolPush(c) ==
    /\ pc[c] = "ret"
    /\ IF IsValid(db[c])
       THEN /\ cachedDatabase' = [cachedDatabase EXCEPT ![TypeOf(db[c])] = Push(@, db[c])]
            /\ pooledAt' = [pooledAt EXCEPT ![db[c]] = Now]
            /\ pc' = [pc EXCEPT ![c] = "p_store"]
            /\ UNCHANGED <<db, reqType>>
       ELSE /\ db' = [db EXCEPT ![c] = Invalid]
            /\ reqType' = [reqType EXCEPT ![c] = 0]
            /\ pc' = [pc EXCEPT ![c] = "idle"]
            /\ UNCHANGED <<cachedDatabase, pooledAt>>
    /\ UNCHANGED <<available, availableNames, lastCachedTime, opened, ticks,
                   name, tpc, tType, tName, lifeVars, srvVars, gcVars>>

\* pool() without the store of line 293
PoolStoreNoTime(c) ==
    /\ pc[c] = "p_store"
    /\ db' = [db EXCEPT ![c] = Invalid]
    /\ reqType' = [reqType EXCEPT ![c] = 0]
    /\ pc' = [pc EXCEPT ![c] = "idle"]
    /\ UNCHANGED <<available, cachedDatabase, availableNames, lastCachedTime,
                   opened, ticks, name, tpc, tType, tName, pooledAt, lifeVars,
                   srvVars, gcVars>>

\* lines 293-296: lastCachedTime[type].store(time); database = TKvsDatabase()
PoolStore(c) ==
    /\ pc[c] = "p_store"
    /\ lastCachedTime' = [lastCachedTime EXCEPT ![TypeOf(db[c])] = Now]
    /\ db' = [db EXCEPT ![c] = Invalid]
    /\ reqType' = [reqType EXCEPT ![c] = 0]
    /\ pc' = [pc EXCEPT ![c] = "idle"]
    /\ UNCHANGED <<available, cachedDatabase, availableNames, opened, ticks,
                   name, tpc, tType, tName, pooledAt, lifeVars,
                   srvVars, gcVars>>

\* ------------------------------------------------------------ timerEvent()

\* line 302: the pool's timer fired; for (t = 0; ...)
TimerEvent ==
    /\ tpc = "t_idle"
    \* init(), lines 122-125: the timer runs only if some type is available;
    \* line 58: and until the destructor stops it
    /\ timerActive
    /\ tpc' = "t_load"
    /\ tType' = 0
    /\ UNCHANGED <<available, cachedDatabase, availableNames, lastCachedTime,
                   opened, ticks, pc, reqType, name, db, tName, pooledAt, lifeVars,
                   srvVars, gcVars>>

\* timerEvent() with the comparison of line 312 turned round
TimerLoadReversed ==
    /\ tpc = "t_load"
    /\ IF available[tType] /\ lastCachedTime[tType] > Now - IdleThreshold
       THEN /\ tpc' = "t_pop"
            /\ tType' = tType
       ELSE IF tType + 1 < TypeNum
       THEN /\ tpc' = "t_load"
            /\ tType' = tType + 1
       ELSE /\ tpc' = "t_idle"
            /\ tType' = 0
    /\ UNCHANGED <<available, cachedDatabase, availableNames, lastCachedTime,
                   opened, ticks, pc, reqType, name, db, tName, pooledAt, lifeVars,
                   srvVars, gcVars>>

\* timerEvent() that looks at the time the top of the cache was pooled
TimerLoadPerConnection ==
    /\ tpc = "t_load"
    /\ IF /\ available[tType]
          /\ cachedDatabase[tType] # <<>>
          /\ pooledAt[Top(cachedDatabase[tType])] < Now - IdleThreshold
       THEN /\ tpc' = "t_pop"
            /\ tType' = tType
       ELSE IF tType + 1 < TypeNum
       THEN /\ tpc' = "t_load"
            /\ tType' = tType + 1
       ELSE /\ tpc' = "t_idle"
            /\ tType' = 0
    /\ UNCHANGED <<available, cachedDatabase, availableNames, lastCachedTime,
                   opened, ticks, pc, reqType, name, db, tName, pooledAt,
                   lifeVars, srvVars, gcVars>>

\* lines 306-312: the availability check and the first half of the while
\* condition, lastCachedTime[t].load() < time - 30; else the next t, and
\* the end of the handler after the last type.  time() >= StartTime > 30,
\* so the unsigned subtraction does not wrap.
TimerLoad ==
    /\ tpc = "t_load"
    /\ IF available[tType] /\ lastCachedTime[tType] < Now - IdleThreshold
       THEN /\ tpc' = "t_pop"
            /\ tType' = tType
       ELSE IF tType + 1 < TypeNum
       THEN /\ tpc' = "t_load"
            /\ tType' = tType + 1
       ELSE /\ tpc' = "t_idle"
            /\ tType' = 0
    /\ UNCHANGED <<available, cachedDatabase, availableNames, lastCachedTime,
                   opened, ticks, pc, reqType, name, db, tName, pooledAt, lifeVars,
                   srvVars, gcVars>>

\* line 313: && cache.pop(name); an empty stack ends the while loop
TimerPop ==
    /\ tpc = "t_pop"
    /\ IF cachedDatabase[tType] # <<>>
       THEN /\ tName' = Top(cachedDatabase[tType])
            /\ cachedDatabase' = [cachedDatabase EXCEPT ![tType] = Pop(@)]
            /\ tpc' = "t_close"
            /\ tType' = tType
       ELSE /\ IF tType + 1 < TypeNum
               THEN /\ tpc' = "t_load"
                    /\ tType' = tType + 1
               ELSE /\ tpc' = "t_idle"
                    /\ tType' = 0
            /\ UNCHANGED <<tName, cachedDatabase>>
    /\ UNCHANGED <<available, availableNames, lastCachedTime, opened, ticks,
                   pc, reqType, name, db, pooledAt, lifeVars,
                   srvVars, gcVars>>

\* timerEvent() that pushes the name without closing the connection
TimerCloseNoClose ==
    /\ tpc = "t_close"
    /\ availableNames' = [availableNames EXCEPT ![tType] = Push(@, tName)]
    /\ pooledAt' = [pooledAt EXCEPT ![tName] = 0]
    /\ tName' = NoName
    /\ tpc' = "t_load"
    /\ UNCHANGED <<available, cachedDatabase, lastCachedTime, opened, ticks,
                   pc, reqType, name, db, tType, lifeVars, srvVars, gcVars>>

\* lines 314-316: close the connection, push its name onto availableNames,
\* and test the while condition again
TimerClose ==
    /\ tpc = "t_close"
    /\ opened' = opened \ {tName}
    /\ availableNames' = [availableNames EXCEPT ![tType] = Push(@, tName)]
    /\ pooledAt' = [pooledAt EXCEPT ![tName] = 0]
    /\ tName' = NoName
    /\ tpc' = "t_load"
    /\ UNCHANGED <<available, cachedDatabase, lastCachedTime, ticks, pc,
                   reqType, name, db, tType, lifeVars, srvVars, gcVars>>

\* ------------------------------------------------------ ~TKvsDatabasePool()

\* lines 56-81: timer.stop(); for every available type, every name popped
\* from the cache is closed and removed from the registry, every name
\* popped from availableNames is removed from the registry.  The pool is
\* deleted by the thread its timer runs on, with no call of database() or
\* pool() in progress and no connection handed out, so the two loops are
\* one step.
Destructor ==
    /\ ~destroyed
    /\ tpc = "t_idle"
    /\ \A c \in Callers : pc[c] = "idle"
    /\ LET popped == UNION {Range(cachedDatabase[t]) \cup Range(availableNames[t]) :
                              t \in {x \in Types : available[x]}}
           closed == UNION {Range(cachedDatabase[t]) :
                              t \in {x \in Types : available[x]}}
       IN  /\ opened' = opened \ closed
           /\ registered' = registered \ popped
           /\ cachedDatabase' = [t \in Types |->
                  IF available[t] THEN <<>> ELSE cachedDatabase[t]]
           /\ availableNames' = [t \in Types |->
                  IF available[t] THEN <<>> ELSE availableNames[t]]
           /\ pooledAt' = [n \in Names |-> IF n \in closed THEN 0 ELSE pooledAt[n]]
    /\ timerActive' = FALSE
    /\ destroyed' = TRUE
    /\ UNCHANGED <<available, lastCachedTime, ticks, pc, reqType, name, db,
                   tpc, tType, tName, srvVars, gcVars>>

\* ------------------------------------------------------------ environment

\* std::time(nullptr) advances
AdvanceTime ==
    /\ ticks < MaxTicks
    /\ ticks' = ticks + 1
    /\ UNCHANGED <<available, cachedDatabase, availableNames, lastCachedTime,
                   opened, pc, reqType, name, db, tpc, tType, tName, pooledAt, lifeVars,
                   srvVars, gcVars>>

\* a cached connection is lost (the server dropped it): isOpen() turns false
Disconnect(n) ==
    /\ n \in opened
    /\ \E t \in Types : n \in Range(cachedDatabase[t])
    /\ opened' = opened \ {n}
    /\ UNCHANGED <<available, cachedDatabase, availableNames, lastCachedTime,
                   ticks, pc, reqType, name, db, tpc, tType, tName, pooledAt, lifeVars,
                   srvVars, gcVars>>

\* ------------------------------------------- TThreadApplicationServer

\* the TActionThread objects the constructor creates, i = 0 .. maxThreads-1
Workers == 1 .. MaxThreads

\* the thread of the server object is in its event loop: in no handler,
\* not inside stop(), and QCoreApplication::exit() has not been called
MainLoop == apc = "a_idle" /\ spc = "s_idle" /\ exitCode = 0

\* constructor, lines 50-56: every thread is pushed onto the thread pool
ServerInit ==
    /\ threadPool = [i \in 1 .. MaxThreads |-> i]
    /\ running = {}
    /\ socketDesc = [w \in Workers |-> 0]
    /\ apc = "a_idle"
    /\ aSd = 0
    /\ nextSd = 1
    \* lines 36-40: not listening yet, listenSocket(listeningSocket), and
    \* a reloadTimer that is not active
    /\ listening = FALSE
    /\ listenSocket = 1
    /\ reloadTimer = FALSE
    /\ newerLibrary = FALSE
    /\ exitCode = 0
    /\ spc = "s_idle"
    /\ waitElapsed = FALSE
    /\ released = FALSE

\* the event loop calls incomingConnection(socketDescriptor), line 108
IncomingConnection ==
    /\ apc = "a_idle"
    /\ nextSd <= MaxSockets
    \* QTcpServer calls the handler from the event loop, while it listens
    /\ listening /\ MainLoop
    /\ aSd' = nextSd
    /\ nextSd' = nextSd + 1
    /\ apc' = "a_pop"
    /\ UNCHANGED <<threadPool, running, socketDesc, ctlVars, poolVars, gcVars>>

\* incomingConnection() that does not wait for pop() to succeed
DispatchNoWait ==
    /\ apc = "a_pop"
    /\ IF threadPool # <<>>
       THEN /\ threadPool' = Pop(threadPool)
            /\ socketDesc' = [socketDesc EXCEPT ![Top(threadPool)] = aSd]
            /\ running' = running \cup {Top(threadPool)}
       ELSE \E w \in 1 .. MaxThreads :
                /\ socketDesc' = [socketDesc EXCEPT ![w] = aSd]
                /\ running' = running \cup {w}
                /\ threadPool' = threadPool
    /\ apc' = "a_idle"
    /\ aSd' = 0
    /\ UNCHANGED <<nextSd, ctlVars, poolVars, gcVars>>

\* incomingConnection() that gives the connection up when no thread is idle
DispatchOrDrop ==
    /\ apc = "a_pop"
    /\ IF threadPool # <<>>
       THEN /\ threadPool' = Pop(threadPool)
            /\ socketDesc' = [socketDesc EXCEPT ![Top(threadPool)] = aSd]
            /\ running' = running \cup {Top(threadPool)}
       ELSE UNCHANGED <<threadPool, socketDesc, running>>
    /\ apc' = "a_idle"
    /\ aSd' = 0
    /\ UNCHANGED <<nextSd, ctlVars, poolVars, gcVars>>

\* lines 112-119: while (!pop(thread)) { yield; msleep(1); } then
\* thread->setSocketDescriptor(sd); thread->start().  The popped thread is
\* owned by the handler alone, so the three calls are one step.
Dispatch ==
    /\ apc = "a_pop"
    /\ IF threadPool # <<>>
       THEN /\ threadPool' = Pop(threadPool)
            /\ socketDesc' = [socketDesc EXCEPT ![Top(threadPool)] = aSd]
            /\ running' = running \cup {Top(threadPool)}
            /\ apc' = "a_idle"
            /\ aSd' = 0
       ELSE UNCHANGED <<threadPool, socketDesc, running, apc, aSd>>
    /\ UNCHANGED <<nextSd, ctlVars, poolVars, gcVars>>

\* a finished handler that does not push the thread
ThreadFinishedNoPush(w) ==
    /\ w \in running
    /\ running' = running \ {w}
    /\ UNCHANGED <<threadPool, socketDesc, apc, aSd, nextSd, ctlVars, poolVars, gcVars>>

\* a finished handler that is connected twice
ThreadFinishedTwice(w) ==
    /\ w \in running
    /\ running' = running \ {w}
    /\ threadPool' = Push(Push(threadPool, w), w)
    /\ UNCHANGED <<socketDesc, apc, aSd, nextSd, ctlVars, poolVars, gcVars>>

\* lines 52-54: TActionThread::finished pushes the thread onto the pool
ThreadFinished(w) ==
    /\ w \in running
    /\ running' = running \ {w}
    /\ threadPool' = Push(threadPool, w)
    /\ UNCHANGED <<socketDesc, apc, aSd, nextSd, ctlVars, poolVars, gcVars>>

\* start(), lines 66-89: nothing if already listening; a listenSocket <= 0
\* or a failing setSocketDescriptor() (or, in debug mode, libraries that
\* do not load) leaves the server not listening
Start ==
    /\ MainLoop
    /\ IF listening \/ listenSocket <= 0
       THEN listening' = listening
       ELSE \E ok \in BOOLEAN : listening' = ok
    /\ UNCHANGED <<threadPool, running, socketDesc, apc, aSd, nextSd,
                   listenSocket, reloadTimer, newerLibrary, exitCode, spc,
                   waitElapsed, released, poolVars, gcVars>>

\* stop() that never calls waitForAllDone()
StopSkipWait ==
    /\ apc = "a_idle" /\ spc = "s_idle"
    /\ IF listening
       THEN /\ listening' = FALSE
            /\ listenSocket' = 0
            /\ waitElapsed' = FALSE
            /\ spc' = "s_release"
       ELSE UNCHANGED <<listening, listenSocket, waitElapsed, spc>>
    /\ UNCHANGED <<threadPool, running, socketDesc, apc, aSd, nextSd,
                   reloadTimer, newerLibrary, exitCode, released, poolVars, gcVars>>

\* stop(), lines 92-103: return if not listening; QTcpServer::close();
\* listenSocket = 0; then waitForAllDone(10000) unless auto-reloading
Stop ==
    /\ apc = "a_idle" /\ spc = "s_idle"
    /\ IF listening
       THEN /\ listening' = FALSE
            /\ listenSocket' = 0
            /\ waitElapsed' = FALSE
            /\ spc' = IF reloadTimer THEN "s_release" ELSE "s_wait"
       ELSE UNCHANGED <<listening, listenSocket, waitElapsed, spc>>
    /\ UNCHANGED <<threadPool, running, socketDesc, apc, aSd, nextSd,
                   reloadTimer, newerLibrary, exitCode, released, poolVars, gcVars>>

\* the 10000 ms of waitForAllDone() have gone by
WaitElapsed ==
    /\ spc = "s_wait"
    /\ ~waitElapsed
    /\ waitElapsed' = TRUE
    /\ UNCHANGED <<threadPool, running, socketDesc, apc, aSd, nextSd,
                   listening, listenSocket, reloadTimer, newerLibrary,
                   exitCode, spc, released, poolVars, gcVars>>

\* line 102: TActionThread::waitForAllDone(10000) returns when no thread
\* is running any more or the time is up
StopWait ==
    /\ spc = "s_wait"
    /\ running = {} \/ waitElapsed
    /\ spc' = "s_release"
    /\ UNCHANGED <<threadPool, running, socketDesc, apc, aSd, nextSd,
                   listening, listenSocket, reloadTimer, newerLibrary,
                   exitCode, waitElapsed, released, poolVars, gcVars>>

\* line 104: TStaticReleaseThread::exec(), the teardown
StopRelease ==
    /\ spc = "s_release"
    /\ released' = TRUE
    /\ spc' = "s_idle"
    /\ UNCHANGED <<threadPool, running, socketDesc, apc, aSd, nextSd,
                   listening, listenSocket, reloadTimer, newerLibrary,
                   exitCode, waitElapsed, poolVars, gcVars>>

\* setAutoReloadingEnabled(enable), lines 123-130
SetAutoReloadingEnabled(enable) ==
    /\ MainLoop
    /\ reloadTimer' = enable
    /\ UNCHANGED <<threadPool, running, socketDesc, apc, aSd, nextSd,
                   listening, listenSocket, newerLibrary, exitCode, spc,
                   waitElapsed, released, poolVars, gcVars>>

\* a newer library of the application is put in place
NewLibrary ==
    /\ ~newerLibrary
    /\ newerLibrary' = TRUE
    /\ UNCHANGED <<threadPool, running, socketDesc, apc, aSd, nextSd,
                   listening, listenSocket, reloadTimer, exitCode, spc,
                   waitElapsed, released, poolVars, gcVars>>

\* timerEvent() that does not ask newerLibraryExists()
ReloadTimerEventAlways ==
    /\ MainLoop
    /\ reloadTimer
    /\ exitCode' = RestartCode
    /\ UNCHANGED <<threadPool, running, socketDesc, apc, aSd, nextSd,
                   listening, listenSocket, reloadTimer, newerLibrary, spc,
                   waitElapsed, released, poolVars, gcVars>>

\* timerEvent(), lines 139-149, for the event of the reloadTimer (which
\* fires only while it is active): exit(127) if newerLibraryExists()
ReloadTimerEvent ==
    /\ MainLoop
    /\ reloadTimer
    /\ exitCode' = IF newerLibrary THEN RestartCode ELSE exitCode
    /\ UNCHANGED <<threadPool, running, socketDesc, apc, aSd, nextSd,
                   listening, listenSocket, reloadTimer, newerLibrary, spc,
                   waitElapsed, released, poolVars, gcVars>>

\* ------------------------------------------------- TCacheSQLiteStore::gc()

\* the rows of the table in the order of "order by t asc": t is the time
\* the entry expires at, sz the pages it takes in the file
Entry(t, sz) == [t |-> t, sz |-> sz]

RECURSIVE SumPages(_)
SumPages(s) == IF s = <<>> THEN 0 ELSE Head(s).sz + SumPages(Tail(s))

\* dbSize(), lines 271-287: page_size * page_count, of a file that has
\* been vacuumed: one page of its own and the pages of the rows
DbSize(s) == PAGESIZE * (1 + SumPages(s))

\* count(), lines 78-89
Count(s) == Len(s)

\* removeOlderThan(timestamp), lines 230-245: delete ... where t < :ts
RemoveOlderThan(s, ts) == SelectSeq(s, LAMBDA e : ~(e.t < ts))

\* removeOlder(num), lines 208-227: nothing if num < 1, else the first num
\* rows in the order of t are deleted
RemoveOlder(s, num) ==
    IF num < 1 THEN s
    ELSE IF num >= Len(s) THEN <<>>
    ELSE SubSeq(s, num + 1, Len(s))

\* count() * 0.3 given to an int parameter: the product is truncated
ThirtyPercent(n) == (n * 3) \div 10

\* dbSize() < _thresholdFileSize * 0.8
UnderEighty(size, thr) == size * 10 < thr * 8

\* the stores gc() is called on: n rows of which the first k have expired
Stores ==
    UNION {UNION {{[i \in 1 .. n |->
                      Entry(IF i <= k THEN StartTime - 1 ELSE StartTime + i - k - 1,
                            szs[i])] :
                   szs \in [1 .. n -> 1 .. MaxPages]} :
                  k \in 0 .. n} :
           n \in 0 .. MaxEntries}

\* the values of _thresholdFileSize
Thresholds == {(0 - 1) * PAGESIZE, 0, 4 * PAGESIZE, 8 * PAGESIZE}

GcInit ==
    /\ store \in Stores
    /\ thresholdFileSize \in Thresholds
    /\ gnow = StartTime
    /\ gpc = "g_idle"
    /\ gi = 0
    /\ gpasses = 0

\* gc() that does not test the size against the threshold
GcNoThreshold ==
    /\ gpc = "g_idle"
    /\ store' = RemoveOlderThan(store, gnow)
    /\ gpc' = "g_loop"
    /\ UNCHANGED <<thresholdFileSize, gnow, gi, gpasses, poolVars, srvVars>>

\* gc(), lines 292-296: removeOlderThan(now); vacuum(); and the test
\* _thresholdFileSize > 0 && dbSize() > _thresholdFileSize
Gc ==
    /\ gpc = "g_idle"
    /\ store' = RemoveOlderThan(store, gnow)
    /\ gpc' = IF thresholdFileSize > 0 /\ DbSize(store') > thresholdFileSize
              THEN "g_loop" ELSE "g_done"
    /\ UNCHANGED <<thresholdFileSize, gnow, gi, gpasses, poolVars, srvVars>>

\* lines 297-303: one turn of for (i = 0; i < 3; i++): removeOlder(count()
\* * 0.3); vacuum(); break if dbSize() < _thresholdFileSize * 0.8
GcIterate ==
    /\ gpc = "g_loop"
    /\ store' = RemoveOlder(store, ThirtyPercent(Count(store)))
    /\ gpasses' = gpasses + 1
    /\ IF UnderEighty(DbSize(store'), thresholdFileSize)
       THEN /\ gpc' = "g_done"
            /\ gi' = gi
       ELSE /\ gi' = gi + 1
            /\ gpc' = IF gi + 1 < GcTurns THEN "g_loop" ELSE "g_done"
    /\ UNCHANGED <<thresholdFileSize, gnow, poolVars, srvVars>>

\* --------------------------------------------------------- specifications

\* the server part of the state while only the pool runs, and the converse
ServerQuiet == ServerInit
PoolQuiet ==
    /\ available = [t \in Types |-> FALSE]
    /\ cachedDatabase = [t \in Types |-> <<>>]
    /\ availableNames = [t \in Types |-> <<>>]
    /\ lastCachedTime = [t \in Types |-> 0]
    /\ opened = {}
    /\ ticks = 0
    /\ pc = [c \in Callers |-> "idle"]
    /\ reqType = [c \in Callers |-> 0]
    /\ name = [c \in Callers |-> NoName]
    /\ db = [c \in Callers |-> Invalid]
    /\ tpc = "t_idle"
    /\ tType = 0
    /\ tName = NoName
    /\ pooledAt = [n \in Names |-> 0]
    /\ registered = {}
    /\ timerActive = FALSE
    /\ destroyed = FALSE

PoolNext ==
    \/ \E c \in Callers, t \in Types : Database(c, t)
    \/ \E c \in Callers : CachePop(c)
    \/ \E c \in Callers : CachedPushBack(c)
    \/ \E c \in Callers : StackPop(c)
    \/ \E c \in Callers : PoolPush(c)
    \/ \E c \in Callers : PoolStore(c)
    \/ TimerEvent
    \/ TimerLoad
    \/ TimerPop
    \/ TimerClose
    \/ AdvanceTime
    \/ \E n \in Names : Disconnect(n)
    \/ Destructor

\* the cache store while gc() is not called
GcQuiet ==
    /\ store = <<>>
    /\ thresholdFileSize = 0
    /\ gnow = StartTime
    /\ gpc = "g_idle"
    /\ gi = 0
    /\ gpasses = 0

\* the pool runs, the server does not
PoolSpecInit == PoolInit /\ ServerQuiet /\ GcQuiet

PoolSpec == PoolSpecInit /\ [][PoolNext]_vars

ServerNext ==
    \/ Start
    \/ IncomingConnection
    \/ Dispatch
    \/ \E w \in Workers : ThreadFinished(w)
    \/ Stop
    \/ WaitElapsed
    \/ StopWait
    \/ StopRelease
    \/ \E enable \in BOOLEAN : SetAutoReloadingEnabled(enable)
    \/ NewLibrary
    \/ ReloadTimerEvent

\* the server runs, the pool does not
ServerSpecInit == PoolQuiet /\ ServerInit /\ GcQuiet

ServerSpec == ServerSpecInit /\ [][ServerNext]_vars

\* the scheduling of the server: the thread running incomingConnection()
\* keeps running (it only yields and sleeps 1 ms between two pops), and
\* every started TActionThread comes to its end and emits finished()
ServerFairness ==
    /\ WF_vars(Dispatch)
    /\ \A w \in Workers : WF_vars(ThreadFinished(w))

ServerLiveSpec == ServerSpecInit /\ [][ServerNext]_vars /\ ServerFairness

GcNext ==
    \/ Gc
    \/ GcIterate

\* gc() runs on a store, the pool and the server do not run
GcSpecInit == PoolQuiet /\ ServerQuiet /\ GcInit

GcSpec == GcSpecInit /\ [][GcNext]_vars

\* ------------------------------------------------- where a name can be

\* the callers holding a connection of the type: database() returned it and
\* pool() has not pushed it yet (ownership passes with the push and the pop)
Holding(t) == {c \in Callers : pc[c] = "ret" /\ IsValid(db[c]) /\ TypeOf(db[c]) = t}
\* the callers that popped name n and have not returned or pushed it yet
Moving(n) == {c \in Callers : pc[c] = "d_cached" /\ name[c] = n}
\* a name of the type is between two stacks, or between a stack and a caller
InMove(t) ==
    \/ \E c \in Callers : pc[c] = "d_cached" /\ reqType[c] = t
    \/ tpc = "t_close" /\ tType = t
\* a caller is inside the for (;;) loop of database(t) with no name in hand
Waiting(t) == {c \in Callers : pc[c] \in {"d_cache", "d_stack"} /\ reqType[c] = t}
\* the positions of name n in the stacks
InCached(n) ==
    {p \in UNION {{<<t, i>> : i \in DOMAIN cachedDatabase[t]} : t \in Types} :
        cachedDatabase[p[1]][p[2]] = n}
InAvailable(n) ==
    {p \in UNION {{<<t, i>> : i \in DOMAIN availableNames[t]} : t \in Types} :
        availableNames[p[1]][p[2]] = n}
\* the number of places name n is in
Places(n) ==
    Cardinality(InCached(n)) + Cardinality(InAvailable(n))
    + Cardinality({c \in Callers : pc[c] = "ret" /\ db[c] = n})
    + Cardinality(Moving(n))
    + (IF tpc = "t_close" /\ tName = n THEN 1 ELSE 0)
\* the names of type t that can still be obtained
Present(t) ==
    Range(cachedDatabase[t]) \cup Range(availableNames[t])
    \cup {db[c] : c \in Holding(t)}
    \cup {name[c] : c \in {x \in Callers : pc[x] = "d_cached" /\ reqType[x] = t}}
    \cup (IF tpc = "t_close" /\ tType = t THEN {tName} ELSE {})
\* the step is the timer's and ends its while loop for type t
SweepEnds(t) ==
    /\ tType = t
    /\ tpc \in {"t_load", "t_pop"}
    /\ tpc' = "t_idle" \/ tType' # t
\* the step is one of timerEvent
TimerStep == tpc' # tpc \/ tType' # tType \/ tName' # tName
\* the step is one of caller c
StepOf(c) == pc'[c] # pc[c] \/ db'[c] # db[c] \/ name'[c] # name[c]

\* ------------------------------------------------------------------ claims

\* C1: for every available type, whenever no name of the type is in the
\* middle of a move, the cached names plus the available names plus the
\* connections in use are as many as the capacity fixed at init.
C1_Conservation ==
    \A t \in Types :
        (available[t] /\ ~InMove(t)) =>
            Len(cachedDatabase[t]) + Len(availableNames[t])
                + Cardinality(Holding(t)) = MaxConnects

\* C2: a connection name is in at most one place: once in one of the two
\* stacks, or held by one caller, or in the hands of the one operation
\* that is moving it.
C2_OnePlace == \A n \in Names : Places(n) <= 1

C2_Witness ==
    \E c1, c2 \in Callers :
        /\ c1 # c2
        /\ c1 \in Holding(0) /\ c2 \in Holding(0)
        /\ \E c3 \in Callers : c3 \in Waiting(0)

\* C3: with fewer than N connections of an available type in use and no
\* name in the middle of a move, a caller inside database() finds a name
\* in one of the stacks: N concurrent calls are served without deadlock.
C3_NoDeadlockBelowCapacity ==
    \A t \in Types :
        (/\ available[t]
         /\ Waiting(t) # {}
         /\ ~InMove(t)
         /\ Cardinality(Holding(t)) < MaxConnects)
            => (cachedDatabase[t] # <<>> \/ availableNames[t] # <<>>)

\* C4: reuse is LIFO.  pool() puts the name on top of the cache; database()
\* takes the top of the cache whenever the cache has a name, which is the
\* name cached last, and leaves availableNames alone; and if that
\* connection is open it is returned as it is, without open().
C4_LIFO ==
    [][\A c \in Callers, t \in Types :
        /\ (pc[c] = "ret" /\ pc'[c] = "p_store" /\ TypeOf(db[c]) = t) =>
              Top(cachedDatabase'[t]) = db[c]
        /\ (/\ pc[c] = "d_cache" /\ StepOf(c) /\ reqType[c] = t
            /\ cachedDatabase[t] # <<>>) =>
              /\ cachedDatabase' = [cachedDatabase EXCEPT ![t] = Pop(@)]
              /\ \A m \in Range(cachedDatabase[t]) :
                     pooledAt[m] <= pooledAt[Top(cachedDatabase[t])]
              /\ UNCHANGED <<availableNames, opened>>
              /\ IF Top(cachedDatabase[t]) \in opened
                 THEN pc'[c] = "ret" /\ db'[c] = Top(cachedDatabase[t])
                 ELSE pc'[c] = "d_cached" /\ name'[c] = Top(cachedDatabase[t])
      ]_vars

C4_Witness ==
    \E c \in Callers :
        /\ c \in Waiting(0) /\ pc[c] = "d_cache"
        /\ Len(cachedDatabase[0]) = MaxConnects
        /\ Range(cachedDatabase[0]) \subseteq opened
        /\ pooledAt[cachedDatabase[0][1]] < pooledAt[Top(cachedDatabase[0])]

\* C5: database() of a type that is not available returns an invalid
\* connection at once and changes neither stack and no timestamp.
C5_Unavailable ==
    [][\A c \in Callers :
        (pc[c] = "idle" /\ StepOf(c) /\ ~available[reqType'[c]]) =>
            /\ pc'[c] = "ret"
            /\ ~IsValid(db'[c])
            /\ UNCHANGED <<cachedDatabase, availableNames, lastCachedTime, opened>>
      ]_vars

C5_Witness ==
    \E c \in Callers : pc[c] = "ret" /\ ~available[reqType[c]] /\ ~IsValid(db[c])

\* C6: when db.open() fails on a name popped from availableNames,
\* database() returns an invalid connection, the name is in neither stack,
\* there is one name less to obtain for the type, and a name that is in no
\* place stays in no place.
C6_OpenFailedLosesName ==
    [][\A t \in Types :
         available[t] =>
           /\ Present(t)' \subseteq Present(t)
           /\ \A c \in Callers :
                (/\ pc[c] = "d_stack" /\ reqType[c] = t
                 /\ availableNames[t] # <<>>
                 /\ StepOf(c) /\ ~IsValid(db'[c])) =>
                    \A n \in {Top(availableNames[t])} :
                        /\ pc'[c] = "ret"
                        /\ n \notin Range(cachedDatabase'[t])
                        /\ n \notin Range(availableNames'[t])
                        /\ Present(t)' = Present(t) \ {n}
      ]_vars

C6_Witness ==
    \E c \in Callers :
        /\ pc[c] = "ret" /\ ~IsValid(db[c]) /\ available[reqType[c]]
        /\ Cardinality(Present(reqType[c])) < MaxConnects

\* C7 as stated: when the timer has gone through a type, no connection
\* cached for more than 30 time-units is left in the cache of the type
\* (for a type whose lastCachedTime is the time at which the connection on
\* top of its cache was pooled, so that no pool() is half done).
C7_IdleConnectionMigrated ==
    [][\A t \in Types :
        (/\ available[t]
         /\ cachedDatabase[t] # <<>>
         /\ lastCachedTime[t] = pooledAt[Top(cachedDatabase[t])]
         /\ SweepEnds(t))
            => \A n \in Range(cachedDatabase'[t]) :
                   Now - pooledAt[n] <= IdleThreshold
      ]_vars

\* C7 amended: the timer leaves a type only when the type's lastCachedTime
\* is not more than 30 time-units in the past or its cache is empty; every
\* name it pops is closed and pushed onto availableNames; and a connection
\* database() returns from availableNames has been opened again.
C7_StaleTypeMigrated ==
    [][/\ \A t \in Types :
            /\ (available[t] /\ SweepEnds(t)) =>
                  \/ tpc = "t_load" /\ ~(lastCachedTime[t] < Now - IdleThreshold)
                  \/ tpc = "t_pop" /\ cachedDatabase[t] = <<>>
            /\ (available[t] /\ tType = t /\ tpc = "t_load"
                    /\ lastCachedTime[t] < Now - IdleThreshold) =>
                  tpc' \in {"t_load", "t_pop"} /\ tType' = t
            /\ (tType = t /\ tpc = "t_close" /\ tpc' # "t_close") =>
                  /\ tName \notin opened'
                  /\ Top(availableNames'[t]) = tName
                  /\ tName \notin Range(cachedDatabase'[t])
       /\ \A c \in Callers :
            (pc[c] = "d_stack" /\ StepOf(c) /\ IsValid(db'[c])) =>
                /\ db'[c] = Top(availableNames[reqType[c]])
                /\ db'[c] \in opened'
      ]_vars

C7_Witness ==
    /\ tpc = "t_close"
    /\ Now - pooledAt[tName] > IdleThreshold
    /\ lastCachedTime[tType] \in StartTime .. Now

\* C8: pool() of a valid connection pushes its name onto the cache of its
\* own type, stores the current time in lastCachedTime of that type and
\* leaves the caller an invalid connection; availableNames, and the cache
\* and lastCachedTime of the other types, do not change.
C8_PoolFrame ==
    [][\A c \in Callers :
        /\ (pc[c] = "ret" /\ StepOf(c) /\ IsValid(db[c])) =>
              /\ pc'[c] = "p_store"
              /\ cachedDatabase' =
                     [cachedDatabase EXCEPT ![TypeOf(db[c])] = Append(@, db[c])]
              /\ UNCHANGED <<availableNames, lastCachedTime, opened>>
        /\ (pc[c] = "p_store" /\ StepOf(c)) =>
              /\ pc'[c] = "idle"
              /\ ~IsValid(db'[c])
              /\ lastCachedTime' =
                     [lastCachedTime EXCEPT ![TypeOf(db[c])] = Now]
              /\ UNCHANGED <<cachedDatabase, availableNames, opened>>
      ]_vars

C8_Witness ==
    \E c \in Callers :
        /\ pc[c] = "idle"
        /\ ticks > 0
        /\ lastCachedTime[0] = Now
        /\ cachedDatabase[0] # <<>>
        /\ pooledAt[Top(cachedDatabase[0])] = Now

\* C9: never more than maxThreads threads are running, and in a state with
\* maxThreads running threads no step hands a connection to a thread.
C9_AtMostMaxThreads ==
    /\ [](Cardinality(running) <= MaxThreads)
    /\ [][Cardinality(running) = MaxThreads =>
              (socketDesc' = socketDesc /\ running' \subseteq running)]_vars

C9_Witness == Cardinality(running) = MaxThreads /\ apc = "a_pop"

\* C10: every thread the constructor created is either in the thread pool
\* or running, and the two numbers add up to maxThreads.
C10_IdlePlusRunning ==
    /\ Len(threadPool) + Cardinality(running) = MaxThreads
    /\ Range(threadPool) \cup running = Workers
    /\ Range(threadPool) \cap running = {}

C10_Witness ==
    /\ running # {}
    /\ threadPool # <<>>
    /\ socketDesc[Top(threadPool)] # 0

\* C11: while incomingConnection() has a connection and no thread, it keeps
\* the connection and changes no thread; the step that ends it hands the
\* connection to exactly one thread, which was idle and is started; and
\* if every running thread comes to its end, every connection accepted is
\* handed to a thread.
C11_AcceptBlocks ==
    /\ [][apc = "a_pop" =>
            \/ /\ apc' = "a_pop" /\ aSd' = aSd
               /\ socketDesc' = socketDesc
               /\ running' \subseteq running
            \/ /\ apc' = "a_idle"
               /\ \E w \in Workers \ running :
                      /\ running' = running \cup {w}
                      /\ socketDesc' = [socketDesc EXCEPT ![w] = aSd]
         ]_vars
    /\ \A s \in 1 .. MaxSockets :
           (apc = "a_pop" /\ aSd = s) ~> (\E w \in running : socketDesc[w] = s)

C11_Witness ==
    /\ apc = "a_pop"
    /\ threadPool = <<>>
    /\ aSd > MaxThreads

\* C12: the destructor, run with no connection in use, stops the timer and,
\* for every available type, leaves the cache and availableNames empty,
\* every connection that was cached closed, and no name of the type in the
\* registry.
C12_ShutdownEmpties ==
    [][(~destroyed /\ destroyed' /\ \A t \in Types : Holding(t) = {}) =>
          /\ ~timerActive'
          /\ \A t \in Types :
                available[t] =>
                    /\ cachedDatabase'[t] = <<>>
                    /\ availableNames'[t] = <<>>
                    /\ Range(cachedDatabase[t]) \cap opened' = {}
                    /\ \A n \in Names : TypeOf(n) = t => n \notin registered'
      ]_vars

\* C13: a server that is not listening hands no connection to a thread and,
\* once stopped, does not listen again; stop() begins only on a listening
\* server, which stops listening at once; without auto-reloading stop()
\* goes on to the teardown only when no thread is running or the wait has
\* timed out, with auto-reloading it goes on without waiting; and on a
\* server that is not listening no stop() begins and nothing is torn down.
C13_Stop ==
    [][/\ ~listening => (socketDesc' = socketDesc /\ running' \subseteq running)
       /\ listenSocket = 0 => (~listening' /\ listenSocket' = 0)
       /\ (spc = "s_idle" /\ spc' # "s_idle") =>
              /\ listening /\ ~listening'
              /\ spc' = IF reloadTimer THEN "s_release" ELSE "s_wait"
       /\ (spc = "s_wait" /\ spc' # "s_wait") =>
              /\ running = {} \/ waitElapsed
              /\ spc' = "s_release"
       /\ (spc = "s_release" /\ ~reloadTimer) => (running = {} \/ waitElapsed)
       /\ (~released /\ released') => spc = "s_release"
       /\ (~listening /\ spc = "s_idle") =>
              UNCHANGED <<spc, released, listenSocket, waitElapsed>>
      ]_vars

C13_Witness ==
    /\ spc = "s_wait"
    /\ ~reloadTimer
    /\ running # {}
    /\ ~waitElapsed

\* C14: a valid connection database() returns is open when it is returned.
\* The name popped from the cache is returned only if its connection is
\* open, else it is pushed onto availableNames and the loop goes on; the
\* name popped from availableNames is returned only if its connection is
\* open already or has just been opened.
C14_ReturnedIsOpen ==
    [][\A c \in Callers :
        /\ (pc[c] \in {"d_cache", "d_stack"} /\ pc'[c] = "ret" /\ IsValid(db'[c])) =>
              db'[c] \in opened'
        /\ (pc[c] = "d_cache" /\ StepOf(c) /\ cachedDatabase[reqType[c]] # <<>>) =>
              IF Top(cachedDatabase[reqType[c]]) \in opened
              THEN pc'[c] = "ret" /\ db'[c] = Top(cachedDatabase[reqType[c]])
              ELSE /\ pc'[c] = "d_cached" /\ db'[c] = db[c]
                   /\ name'[c] = Top(cachedDatabase[reqType[c]])
        /\ (pc[c] = "d_cached" /\ StepOf(c)) =>
              /\ pc'[c] = "d_cache"
              /\ availableNames' =
                     [availableNames EXCEPT ![reqType[c]] = Append(@, name[c])]
        /\ (pc[c] = "d_stack" /\ pc'[c] = "ret" /\ IsValid(db'[c])) =>
              /\ db'[c] = Top(availableNames[reqType[c]])
              /\ db'[c] \in opened \/ opened' = opened \cup {db'[c]}
      ]_vars

C14_Witness ==
    \E c \in Callers :
        /\ pc[c] = "d_cached"
        /\ name[c] \notin opened
        /\ \E c2 \in Callers : pc[c2] = "ret" /\ IsValid(db[c2]) /\ db[c2] \in opened

\* C15: the timer decides by type.  At a type whose lastCachedTime is not
\* more than 30 in the past it pops nothing and goes on, whatever the time
\* the cached connections were pooled at; at a type whose lastCachedTime is
\* more than 30 in the past it pops, closes and pushes onto availableNames
\* one name after the other, and leaves the type only with an empty cache
\* or after a pool() has stored a newer time.
C15_PerTypeGranularity ==
    [][\A t \in Types :
        (available[t] /\ tType = t /\ TimerStep) =>
            /\ (tpc = "t_load" /\ ~(lastCachedTime[t] < Now - IdleThreshold)) =>
                  /\ SweepEnds(t)
                  /\ UNCHANGED <<cachedDatabase, availableNames, opened>>
            /\ (tpc = "t_load" /\ lastCachedTime[t] < Now - IdleThreshold) =>
                  /\ tpc' = "t_pop" /\ tType' = t
                  /\ UNCHANGED <<cachedDatabase, availableNames, opened>>
            /\ (tpc = "t_pop" /\ cachedDatabase[t] # <<>>) =>
                  /\ tpc' = "t_close" /\ tType' = t
                  /\ tName' = Top(cachedDatabase[t])
                  /\ cachedDatabase' = [cachedDatabase EXCEPT ![t] = Pop(@)]
            /\ (tpc = "t_pop" /\ cachedDatabase[t] = <<>>) =>
                  /\ SweepEnds(t)
                  /\ UNCHANGED <<cachedDatabase, availableNames, opened>>
            /\ tpc = "t_close" =>
                  /\ tpc' = "t_load" /\ tType' = t
                  /\ opened' = opened \ {tName}
                  /\ availableNames' = [availableNames EXCEPT ![t] = Append(@, tName)]
                  /\ cachedDatabase' = cachedDatabase
      ]_vars

C15_Witness ==
    /\ tpc = "t_load" /\ available[tType]
    /\ lastCachedTime[tType] \in StartTime .. Now
    /\ ~(lastCachedTime[tType] < Now - IdleThreshold)
    /\ \E n \in Range(cachedDatabase[tType]) : pooledAt[n] < Now - IdleThreshold

\* C16: a thread is in the thread pool once or running, never both; it is
\* given a socket descriptor only in the step that takes it off the top of
\* the pool and starts it, while it is not running; and the step in which
\* it stops running pushes it onto the pool once.
C16_WorkerCycle ==
    /\ [](/\ \A i, j \in DOMAIN threadPool : threadPool[i] = threadPool[j] => i = j
          /\ Range(threadPool) \cap running = {})
    /\ [][\A w \in Workers :
            /\ socketDesc'[w] # socketDesc[w] =>
                  /\ w \notin running /\ w \in running'
                  /\ threadPool # <<>> /\ w = Top(threadPool)
                  /\ threadPool' = Pop(threadPool)
            /\ (w \notin running /\ w \in running') =>
                  /\ socketDesc'[w] = aSd /\ apc = "a_pop"
                  /\ running' = running \cup {w}
            /\ (w \in running /\ w \notin running') =>
                  /\ threadPool' = Append(threadPool, w)
                  /\ running' = running \ {w}
         ]_vars

C16_Witness ==
    \E w \in running :
        /\ socketDesc[w] = MaxSockets
        /\ \A v \in Workers \ {w} : socketDesc[v] = 0

\* C17: exit() is called only with 127, only by the event of the
\* reloadTimer, and only in a state where auto-reloading is enabled and a
\* newer library exists; so with auto-reloading disabled, or with no newer
\* library at any tick, it is never called.
C17_RestartOnlyOnNewLibrary ==
    /\ [](exitCode \in {0, RestartCode})
    /\ [][exitCode' # exitCode =>
              /\ reloadTimer /\ newerLibrary /\ MainLoop
              /\ exitCode' = RestartCode
              /\ UNCHANGED <<threadPool, running, socketDesc, apc, aSd, nextSd,
                             listening, listenSocket, reloadTimer, newerLibrary,
                             spc, waitElapsed, released>>
         ]_vars

C17_Witness ==
    /\ exitCode = RestartCode
    /\ reloadTimer
    /\ newerLibrary

\* C18: gc() first removes the expired rows.  It enters its loop only with
\* a positive threshold and a size above it; else it removes nothing more.
\* Every turn removes the oldest rows, three tenths of their number
\* rounded down, and compacts; the loop ends with the first turn that
\* leaves the size under 80% of the threshold, and after the third turn at
\* the latest.
C18_GcBounded ==
    /\ [](/\ gpasses <= GcTurns
          /\ gpc = "g_loop" =>
                /\ thresholdFileSize > 0
                /\ gpasses < GcTurns
                /\ IF gpasses = 0
                   THEN DbSize(store) > thresholdFileSize
                   ELSE DbSize(store) * 10 >= thresholdFileSize * 8)
    /\ [][/\ gpc = "g_idle" /\ gpc' # "g_idle" =>
              /\ store' = SelectSeq(store, LAMBDA e : e.t >= gnow)
              /\ gpc' = "g_loop" <=>
                    (thresholdFileSize > 0 /\ DbSize(store') > thresholdFileSize)
              /\ gpc' \in {"g_loop", "g_done"}
          /\ gpc = "g_loop" /\ gpasses' # gpasses =>
              /\ gpasses' = gpasses + 1
              /\ \E r \in 0 .. Len(store) :
                     /\ 10 * r <= 3 * Len(store)
                     /\ 3 * Len(store) < 10 * (r + 1)
                     /\ store' = SubSeq(store, r + 1, Len(store))
              /\ gpc' = "g_done" <=>
                    \/ DbSize(store') * 10 < thresholdFileSize * 8
                    \/ gpasses' = GcTurns
              /\ gpc' \in {"g_loop", "g_done"}
          /\ gpc = "g_done" => UNCHANGED <<store, gpc, gpasses>>
          /\ thresholdFileSize' = thresholdFileSize
         ]_vars

C18_Witness ==
    /\ gpc = "g_done"
    /\ gpasses = 2
    /\ Len(store) > 0
    /\ DbSize(store) * 10 < thresholdFileSize * 8

\* C19: when the timer pops a name from the cache of a type whose
\* lastCachedTime is the time of an earlier pool(), more than 30 time-units
\* ago, that name was pooled at least 30 time-units ago.
C19_NoFreshReclaim ==
    [][\A t \in Types :
        (/\ tType = t /\ tpc = "t_pop" /\ tpc' = "t_close"
         /\ lastCachedTime[t] >= StartTime
         /\ lastCachedTime[t] < Now - IdleThreshold) =>
            Now - pooledAt[tName'] >= IdleThreshold
      ]_vars

\* C20: while no connection of an available type is in use and no name of
\* the type is in the middle of a move, a caller inside the loop of
\* database() has a name to pop in one of the two stacks, so that its call
\* ends (with a connection or with a failed open) instead of spinning.
C20_AcquireTerminatesWhenIdle ==
    \A t \in Types :
        (/\ available[t]
         /\ ~destroyed
         /\ Holding(t) = {}
         /\ ~InMove(t)
         /\ Waiting(t) # {})
            => Len(cachedDatabase[t]) + Len(availableNames[t]) >= 1

\* C21: no name in availableNames is the name of an open connection, and
\* so a call of database() that takes a name from availableNames never
\* finds it open: the connection it returns is one it opened in that step.
C21_ColdNamesClosed ==
    /\ [](\A t \in Types : Range(availableNames[t]) \cap opened = {})
    /\ [][\A c \in Callers :
            (pc[c] = "d_stack" /\ pc'[c] = "ret" /\ IsValid(db'[c])) =>
                /\ db'[c] \notin opened
                /\ opened' = opened \cup {db'[c]}
         ]_vars

\* every name is back in availableNames in another order than init() pushed
\* them (each was opened, pooled and then closed by the timer or found not
\* open by database()), and a caller is about to pop one of them
C21_Witness ==
    /\ Len(availableNames[0]) = MaxConnects
    /\ availableNames[0] # InitNames(0)
    /\ \E c \in Callers : pc[c] = "d_stack" /\ reqType[c] = 0

\* C22: pool() of an invalid connection, such as the one database()
\* returned after a failed open or for a type that is not available, only
\* ends the call: the caches, availableNames and lastCachedTime of every
\* type are unchanged, no connection is opened or closed, and the names
\* obtainable for each type are the same, so a lost name is not restored.
C22_PoolInvalidFrame ==
    [][\A c \in Callers :
        (pc[c] = "ret" /\ ~IsValid(db[c]) /\ StepOf(c)) =>
            /\ pc'[c] = "idle"
            /\ ~IsValid(db'[c])
            /\ UNCHANGED <<cachedDatabase, availableNames, lastCachedTime,
                           opened>>
            /\ \A t \in Types : Present(t)' = Present(t)
      ]_vars

\* every call has ended, among them the pool() of the invalid connection of
\* a failed open, and the name that open lost is still missing
C22_Witness ==
    /\ \A c \in Callers : pc[c] = "idle"
    /\ tpc = "t_idle"
    /\ ~destroyed
    /\ available[0]
    /\ Cardinality(Present(0)) < MaxConnects

====
